---- MODULE Spec2Model ----
(***************************************************************************)
(* ThreadSafeQueue (queue.go): a slice guarded by a sync.Mutex, with a     *)
(* sync.Cond on which Dequeue waits while the slice is empty.              *)
(*                                                                         *)
(* Goroutines are the processes of the model.  Each one is given a plan    *)
(* (how many Enqueue, Dequeue and IsEmpty/Size calls it will make) and     *)
(* issues those calls in any order, one at a time.  Every method is cut    *)
(* into the steps its source lines make, so that all interleavings the     *)
(* mutex allows are explored.                                              *)
(***************************************************************************)
EXTENDS Integers, Sequences, FiniteSets, Bags, TLC

\* ------------------------------------------------------------------ bounds

\* Goroutines that use the queue.
NumProcs == 5

\* Calls (Enqueue, Dequeue, IsEmpty, Size) made in one run of the general
\* workloads, all goroutines together.
MaxCalls == 3

\* Calls each producer and each consumer makes in the workload of two
\* producers and two consumers.
PerWorker == 1

\* Dequeue calls blocked together in the workload of waiting consumers.
NumWaiters == 2

\* Items one goroutine enqueues and then dequeues in the sequential workload.
SeqLen == 3

\* Calls the producer and the consumer each make in the workload of one
\* producer and one consumer.
PairLen == 2

Procs == 1 .. NumProcs

\* The items a caller may pass to Enqueue: interface{} values, each a
\* dynamic type together with a value of that type.
Values == { <<"int", 42>>, <<"string", "hello">> }

\* The zero interface value, held by a local before it is assigned.
NoItem == <<"nil", "nil">>

\* The mutex is unlocked.
Unlocked == 0

\* ------------------------------------------------------------------- state

VARIABLES
    queue,      \* q.queue: the slice of items, oldest first
    mu,         \* q.mu: Unlocked, or the goroutine inside Lock()..Unlock()
    waiting,    \* q.cond: the goroutines in Wait that no Signal has woken yet
    pc,         \* where each goroutine is
    arg,        \* Enqueue's parameter item, per goroutine
    item,       \* Dequeue's local item, per goroutine
    ret,        \* what each goroutine's last completed call returned
    plan,       \* the calls each goroutine makes in this run (fixed by Init)
    left,       \* the calls each goroutine has not issued yet
    admitted,   \* history: the items appended, in the order of the appends
    removed,    \* history: the items taken off the head, in that order
    sent,       \* history: per goroutine, the items it passed to Enqueue
    got,        \* history: per goroutine, the items Dequeue returned to it
    seen        \* history: per goroutine, what its latest Dequeue call has met

vars == << queue, mu, waiting, pc, arg, item, ret, plan, left,
           admitted, removed, sent, got, seen >>

qvars == << queue, mu, waiting >>
hist == << admitted, removed, sent, got, seen >>

\* ----------------------------------------------------------------- helpers

\* The items of a sequence as a bag.
RECURSIVE BagOf(_)
BagOf(s) ==
    IF s = << >> THEN EmptyBag ELSE BagOf(Tail(s)) (+) SetToBag({Head(s)})

\* The concatenation of f[1], ..., f[n].
RECURSIVE Concat(_, _)
Concat(f, n) == IF n = 0 THEN << >> ELSE Concat(f, n - 1) \o f[n]

\* s is an initial segment of t.
IsPrefix(s, t) == Len(s) <= Len(t) /\ s = SubSeq(t, 1, Len(s))

\* A runtime panic ends the whole program.
Running == \A p \in Procs : pc[p] # "panic"

At(p, label) == Running /\ pc[p] = label

\* ----------------------------------------------------------------- results

NoRet == [op |-> "none", item |-> NoItem, ok |-> FALSE, empty |-> FALSE, size |-> 0]

DequeueRet(it, ok) ==
    [op |-> "Dequeue", item |-> it, ok |-> ok, empty |-> FALSE, size |-> 0]

EnqueueRet == [NoRet EXCEPT !.op = "Enqueue"]

IsEmptyRet(b) == [NoRet EXCEPT !.op = "IsEmpty", !.empty = b]

SizeRet(n) == [NoRet EXCEPT !.op = "Size", !.size = n]

\* -------------------------------------------------------- sync.Mutex, Cond

\* A slip: Lock does not wait for the mutex to be unlocked.
LockNoWait(p) == mu' = p

\* mu.Lock(): blocks until the mutex is unlocked, then locks it.
Lock(p) == mu = Unlocked /\ mu' = p

\* A slip: the Unlock is forgotten, so the mutex stays locked.
UnlockForgotten == mu' = mu

\* mu.Unlock().
Unlock == mu' = Unlocked

\* A slip: the Signal is left out, so nobody is woken.
SignalNobody(ws) == { {} }

\* A slip: Broadcast instead of Signal, so every waiting goroutine is woken.
SignalAll(ws) == { ws }

\* cond.Signal(): wakes one goroutine waiting on the condition, if there is
\* any; which one is not promised.  The sets of goroutines one Signal may
\* wake, given the set ws of those waiting.
Signal(ws) == IF ws = {} THEN { {} } ELSE { {w} : w \in ws }

\* ------------------------------------------------------------------- plans

\* A goroutine's plan: how many calls of each method it makes, whether its
\* Enqueue calls pass 0, 1, 2, ... (a counting loop) or any items, and
\* whether it makes all its Enqueue calls before its first Dequeue call (two
\* loops, one after the other) or makes its calls in any order, and whether
\* it first waits for the other goroutines to finish theirs.
NoCalls == [enq |-> 0, deq |-> 0, isEmpty |-> 0, size |-> 0,
            counting |-> FALSE, enqFirst |-> FALSE, afterOthers |-> FALSE]

\* The calls of a plan.
Calls(pl) == pl.enq + pl.deq + pl.isEmpty + pl.size

Plans ==
    { pl \in [enq : 0 .. MaxCalls, deq : 0 .. MaxCalls,
              isEmpty : 0 .. MaxCalls, size : 0 .. MaxCalls,
              counting : {FALSE}, enqFirst : {FALSE}, afterOthers : {FALSE}] :
        Calls(pl) <= MaxCalls }

\* What a goroutine's latest Dequeue call has met: whether the slice was
\* empty when it was issued, how many items had been appended by then,
\* whether no other Dequeue was in progress then (alone) or at any time
\* since (undisturbed), whether it has been suspended in Wait, and how many
\* goroutines were suspended with it when it last was.
NotSeen == [empty |-> FALSE, adm |-> 0, alone |-> FALSE, undisturbed |-> FALSE,
            waited |-> FALSE, company |-> 0]

\* Goroutines are interchangeable, so the plans are listed in one order
\* only: busiest first.
Rank(pl) ==
    ((pl.enq * (MaxCalls + 1) + pl.deq) * (MaxCalls + 1) + pl.isEmpty) * (MaxCalls + 1)
        + pl.size

\* The ways to give n goroutines plans of at most c calls together, no plan
\* ranking above top and none above the one before it.
RECURSIVE Splits(_, _, _)
Splits(n, c, top) ==
    IF n = 0 THEN { << >> }
    ELSE UNION { { << pl >> \o rest :
                     rest \in Splits(n - 1, c - Calls(pl), Rank(pl)) } :
                 pl \in { x \in Plans : Calls(x) <= c /\ Rank(x) <= top } }

\* The general workloads: any split of at most MaxCalls calls among the
\* goroutines.
AnyWorkload == Splits(NumProcs, MaxCalls, Rank([NoCalls EXCEPT !.enq = MaxCalls]))

\* TestSizeWithConcurrentOperations: two goroutines that only enqueue
\* 0, 1, ..., two that only dequeue, as many calls each, and the goroutine
\* that started them, which looks at the size when they have had the time to
\* finish.
Workers(k) ==
    [p \in Procs |->
        IF p \in {1, 2} THEN [NoCalls EXCEPT !.enq = k, !.counting = TRUE]
        ELSE IF p \in {3, 4} THEN [NoCalls EXCEPT !.deq = k]
        ELSE IF p = 5 THEN [NoCalls EXCEPT !.size = 1, !.afterOthers = TRUE]
        ELSE NoCalls]

\* TestMultipleDequeueWaits: m goroutines that dequeue once each, and the
\* goroutine that started them, which enqueues 0, 1, ..., m items in all.
Waiters(m) ==
    [p \in Procs |->
        IF p <= m THEN [NoCalls EXCEPT !.deq = 1]
        ELSE IF p = m + 1 THEN [NoCalls EXCEPT !.enq = m, !.counting = TRUE]
        ELSE NoCalls]

\* TestOrdering, TestEnqueueDequeueDifferentTypes, TestEnqueueDequeue: one
\* goroutine enqueues n items of any types and then dequeues n times, and
\* looks at the queue on the way.
Sequential(n) ==
    [p \in Procs |->
        IF p = 1 THEN [NoCalls EXCEPT !.enq = n, !.deq = n, !.isEmpty = 1,
                                      !.size = 1, !.enqFirst = TRUE]
        ELSE NoCalls]

\* TestConcurrentOperations: one goroutine enqueues 0, 1, ..., another
\* dequeues as many times, and the goroutine that started them looks at the
\* size after both have reported on the done channel.
Pair(n) ==
    [p \in Procs |->
        IF p = 1 THEN [NoCalls EXCEPT !.enq = n, !.counting = TRUE]
        ELSE IF p = 2 THEN [NoCalls EXCEPT !.deq = n]
        ELSE IF p = 3 THEN [NoCalls EXCEPT !.size = 1, !.afterOthers = TRUE]
        ELSE NoCalls]

\* The workloads of the tests.
TestWorkload ==
    { Workers(PerWorker), Waiters(NumWaiters), Sequential(SeqLen), Pair(PairLen) }

\* NewThreadSafeQueue: an empty slice, an unlocked mutex, nobody waiting.
\* The goroutines run the workload w.
InitWith(w) ==
    /\ queue = << >>
    /\ mu = Unlocked
    /\ waiting = {}
    /\ pc = [p \in Procs |-> "idle"]
    /\ arg = [p \in Procs |-> NoItem]
    /\ item = [p \in Procs |-> NoItem]
    /\ ret = [p \in Procs |-> NoRet]
    /\ plan = w
    /\ left = w
    /\ admitted = << >>
    /\ removed = << >>
    /\ sent = [p \in Procs |-> << >>]
    /\ got = [p \in Procs |-> << >>]
    /\ seen = [p \in Procs |-> NotSeen]

Init == \E w \in AnyWorkload : InitWith(w)

InitTests == \E w \in TestWorkload : InitWith(w)

\* ------------------------------------------------------------------- calls

\* The goroutine has made all its calls.
Finished(p) == pc[p] = "idle" /\ Calls(left[p]) = 0

\* A goroutine that waits for the others does so before its first call.
MayCall(p) == plan[p].afterOthers => \A q \in Procs \ {p} : Finished(q)

InDequeue(p) == pc[p] \in {"d_lock", "d_check", "d_wait", "d_waiting",
                           "d_woken", "d_take", "d_return"}

\* A goroutine calls q.Enqueue(v).
CallEnqueue(p) ==
    /\ At(p, "idle")
    /\ left[p].enq > 0
    /\ MayCall(p)
    /\ \E v \in (IF plan[p].counting THEN { <<"int", Len(sent[p])>> } ELSE Values) :
        /\ arg' = [arg EXCEPT ![p] = v]
        /\ sent' = [sent EXCEPT ![p] = Append(@, v)]
    /\ left' = [left EXCEPT ![p].enq = @ - 1]
    /\ pc' = [pc EXCEPT ![p] = "e_lock"]
    /\ UNCHANGED << qvars, item, ret, plan, admitted, removed, got, seen >>

\* A goroutine calls q.Dequeue().
CallDequeue(p) ==
    /\ At(p, "idle")
    /\ left[p].deq > 0
    /\ MayCall(p)
    /\ plan[p].enqFirst => left[p].enq = 0
    /\ left' = [left EXCEPT ![p].deq = @ - 1]
    /\ pc' = [pc EXCEPT ![p] = "d_lock"]
    /\ item' = [item EXCEPT ![p] = NoItem]
    /\ seen' = [q \in Procs |->
                 IF q = p
                 THEN [empty |-> queue = << >>,
                       adm |-> Len(admitted),
                       alone |-> \A r \in Procs \ {p} : ~InDequeue(r),
                       undisturbed |-> \A r \in Procs \ {p} : ~InDequeue(r),
                       waited |-> FALSE,
                       company |-> 0]
                 ELSE IF InDequeue(q) THEN [seen[q] EXCEPT !.undisturbed = FALSE]
                 ELSE seen[q]]
    /\ UNCHANGED << qvars, arg, ret, plan, admitted, removed, sent, got >>

\* A goroutine calls q.IsEmpty().
CallIsEmpty(p) ==
    /\ At(p, "idle")
    /\ left[p].isEmpty > 0
    /\ MayCall(p)
    /\ left' = [left EXCEPT ![p].isEmpty = @ - 1]
    /\ pc' = [pc EXCEPT ![p] = "i_lock"]
    /\ UNCHANGED << qvars, arg, item, ret, plan, hist >>

\* A goroutine calls q.Size().
CallSize(p) ==
    /\ At(p, "idle")
    /\ left[p].size > 0
    /\ MayCall(p)
    /\ left' = [left EXCEPT ![p].size = @ - 1]
    /\ pc' = [pc EXCEPT ![p] = "s_lock"]
    /\ UNCHANGED << qvars, arg, item, ret, plan, hist >>

\* ----------------------------------------------------------------- Enqueue

\* q.mu.Lock()
EnqLock(p) ==
    /\ At(p, "e_lock")
    /\ Lock(p)
    /\ pc' = [pc EXCEPT ![p] = "e_append"]
    /\ UNCHANGED << queue, waiting, arg, item, ret, plan, left, hist >>

\* A slip: the item is put at the front of the slice.
AppendItemAtFront(q, v) == << v >> \o q

\* The slice after append(q.queue, item).
AppendItem(q, v) == Append(q, v)

\* q.queue = append(q.queue, item)
EnqAppend(p) ==
    /\ At(p, "e_append")
    /\ queue' = AppendItem(queue, arg[p])
    /\ admitted' = Append(admitted, arg[p])
    /\ pc' = [pc EXCEPT ![p] = "e_signal"]
    /\ UNCHANGED << mu, waiting, arg, item, ret, plan, left, removed, sent, got, seen >>

\* q.cond.Signal(): a woken goroutine leaves the wait list and still has to
\* lock the mutex again before its Wait returns.
EnqSignal(p) ==
    /\ At(p, "e_signal")
    /\ \E woken \in Signal(waiting) :
        /\ waiting' = waiting \ woken
        /\ pc' = [q \in Procs |->
                    IF q = p THEN "e_unlock"
                    ELSE IF q \in woken THEN "d_woken" ELSE pc[q]]
    /\ UNCHANGED << queue, mu, arg, item, ret, plan, left, hist >>

\* q.mu.Unlock(), and the return.
EnqUnlock(p) ==
    /\ At(p, "e_unlock")
    /\ Unlock
    /\ ret' = [ret EXCEPT ![p] = EnqueueRet]
    /\ pc' = [pc EXCEPT ![p] = "idle"]
    /\ UNCHANGED << queue, waiting, arg, item, plan, left, hist >>

\* ----------------------------------------------------------------- Dequeue

\* q.mu.Lock(), with the Unlock deferred to the return.
DeqLock(p) ==
    /\ At(p, "d_lock")
    /\ Lock(p)
    /\ pc' = [pc EXCEPT ![p] = "d_check"]
    /\ UNCHANGED << queue, waiting, arg, item, ret, plan, left, hist >>

\* The loop condition len(q.queue) == 0.
MustWait(q) == Len(q) = 0

\* for len(q.queue) == 0 { ... }: evaluated on entry and after every Wait.
DeqCheck(p) ==
    /\ At(p, "d_check")
    /\ pc' = [pc EXCEPT ![p] = IF MustWait(queue) THEN "d_wait" ELSE "d_take"]
    /\ UNCHANGED << qvars, arg, item, ret, plan, left, hist >>

\* q.cond.Wait(), first half: the goroutine joins the wait list and unlocks
\* the mutex, and is suspended until a Signal picks it.
DeqWait(p) ==
    /\ At(p, "d_wait")
    /\ waiting' = waiting \cup {p}
    /\ Unlock
    /\ pc' = [pc EXCEPT ![p] = "d_waiting"]
    /\ seen' = [seen EXCEPT ![p].waited = TRUE,
                            ![p].company = Cardinality(waiting \cup {p})]
    /\ UNCHANGED << queue, arg, item, ret, plan, left, admitted, removed, sent, got >>

\* A slip: `if` in place of `for`, so a woken goroutine goes on to the head
\* without evaluating the condition again.
NoRecheck == "d_take"

\* Where Wait returns to: the condition of the for loop.
AfterWait == "d_check"

\* q.cond.Wait(), second half: the woken goroutine locks the mutex again and
\* goes back to the loop condition.
DeqWake(p) ==
    /\ At(p, "d_woken")
    /\ Lock(p)
    /\ pc' = [pc EXCEPT ![p] = AfterWait]
    /\ UNCHANGED << queue, waiting, arg, item, ret, plan, left, hist >>

\* A slip: the newest item is read instead of the oldest.
FirstIsNewest(q) == q[Len(q)]

\* q.queue[0]
First(q) == Head(q)

\* A slip: the slice keeps its head (q.queue[0:]).
RestKeepsHead(q) == q

\* q.queue[1:]
Rest(q) == Tail(q)

\* item := q.queue[0]; q.queue = q.queue[1:].  Indexing an empty slice is a
\* runtime panic.
DeqTake(p) ==
    /\ At(p, "d_take")
    /\ IF Len(queue) = 0
       THEN /\ pc' = [pc EXCEPT ![p] = "panic"]
            /\ UNCHANGED << queue, item, removed >>
       ELSE /\ item' = [item EXCEPT ![p] = First(queue)]
            /\ queue' = Rest(queue)
            /\ removed' = Append(removed, First(queue))
            /\ pc' = [pc EXCEPT ![p] = "d_return"]
    /\ UNCHANGED << mu, waiting, arg, ret, plan, left, admitted, sent, got, seen >>

\* A slip: the boolean says failure.
DequeueOkFalse == FALSE

\* The boolean of return item, true.
DequeueOk == TRUE

\* return item, true, and the deferred q.mu.Unlock().
DeqReturn(p) ==
    /\ At(p, "d_return")
    /\ Unlock
    /\ ret' = [ret EXCEPT ![p] = DequeueRet(item[p], DequeueOk)]
    /\ got' = [got EXCEPT ![p] = Append(@, item[p])]
    /\ pc' = [pc EXCEPT ![p] = "idle"]
    /\ UNCHANGED << queue, waiting, arg, item, plan, left, admitted, removed, sent, seen >>

\* ----------------------------------------------------------------- IsEmpty

\* q.mu.Lock(), with the Unlock deferred to the return.
IsEmptyLock(p) ==
    /\ At(p, "i_lock")
    /\ Lock(p)
    /\ pc' = [pc EXCEPT ![p] = "i_read"]
    /\ UNCHANGED << queue, waiting, arg, item, ret, plan, left, hist >>

\* A slip: the comparison is inverted.
IsEmptyInverted(q) == Len(q) # 0

\* len(q.queue) == 0
IsEmptyValue(q) == Len(q) = 0

\* return len(q.queue) == 0: the result is computed with the mutex held.
IsEmptyRead(p) ==
    /\ At(p, "i_read")
    /\ ret' = [ret EXCEPT ![p] = IsEmptyRet(IsEmptyValue(queue))]
    /\ pc' = [pc EXCEPT ![p] = "i_unlock"]
    /\ UNCHANGED << qvars, arg, item, plan, left, hist >>

\* The deferred q.mu.Unlock(), and the return.
IsEmptyReturn(p) ==
    /\ At(p, "i_unlock")
    /\ Unlock
    /\ pc' = [pc EXCEPT ![p] = "idle"]
    /\ UNCHANGED << queue, waiting, arg, item, ret, plan, left, hist >>

\* -------------------------------------------------------------------- Size

\* q.mu.Lock(), with the Unlock deferred to the return.
SizeLock(p) ==
    /\ At(p, "s_lock")
    /\ Lock(p)
    /\ pc' = [pc EXCEPT ![p] = "s_read"]
    /\ UNCHANGED << queue, waiting, arg, item, ret, plan, left, hist >>

\* A slip: the capacity-like count is one too many.
SizeOffByOne(q) == Len(q) + 1

\* len(q.queue)
SizeValue(q) == Len(q)

\* return len(q.queue): the result is computed with the mutex held.
SizeRead(p) ==
    /\ At(p, "s_read")
    /\ ret' = [ret EXCEPT ![p] = SizeRet(SizeValue(queue))]
    /\ pc' = [pc EXCEPT ![p] = "s_unlock"]
    /\ UNCHANGED << qvars, arg, item, plan, left, hist >>

\* The deferred q.mu.Unlock(), and the return.
SizeReturn(p) ==
    /\ At(p, "s_unlock")
    /\ Unlock
    /\ pc' = [pc EXCEPT ![p] = "idle"]
    /\ UNCHANGED << queue, waiting, arg, item, ret, plan, left, hist >>

\* ----------------------------------------------------------- specification

\* One step of goroutine p.
Step(p) ==
    \/ CallEnqueue(p) \/ CallDequeue(p) \/ CallIsEmpty(p) \/ CallSize(p)
    \/ EnqLock(p) \/ EnqAppend(p) \/ EnqSignal(p) \/ EnqUnlock(p)
    \/ DeqLock(p) \/ DeqCheck(p) \/ DeqWait(p) \/ DeqWake(p)
    \/ DeqTake(p) \/ DeqReturn(p)
    \/ IsEmptyLock(p) \/ IsEmptyRead(p) \/ IsEmptyReturn(p)
    \/ SizeLock(p) \/ SizeRead(p) \/ SizeReturn(p)

Next == \E p \in Procs : Step(p)

Spec == Init /\ [][Next]_vars

\* The scheduler keeps running goroutines while one of them can take a
\* step.  Every workload is finite, so this is all the fairness a run needs
\* to reach the state in which every goroutine has finished or is blocked.
FairSpec == Spec /\ WF_vars(Next)

\* The tests' workloads.
SpecTests == InitTests /\ [][Next]_vars

FairSpecTests == SpecTests /\ WF_vars(Next)

\* ------------------------------------------------------------------ claims

\* The goroutine's latest completed call is a Dequeue, and it has issued no
\* Dequeue since: ret[p] and seen[p] are about the same call.
DeqReturned(p) == ret[p].op = "Dequeue" /\ ~InDequeue(p)

\* p is the only goroutine that enqueues or dequeues, and it enqueues first.
Lone(p) ==
    /\ plan[p].enqFirst
    /\ \A q \in Procs \ {p} : plan[q].enq = 0 /\ plan[q].deq = 0

\* C1: when one goroutine enqueues v1..vN on a new queue and only then
\* dequeues, its k-th Dequeue returns (vk, true): what it has received so far
\* is the initial segment of what it enqueued, item for item, whatever the
\* items' types.
C1_FifoSequential ==
    \A p \in Procs :
        Lone(p) =>
            /\ IsPrefix(got[p], sent[p])
            /\ DeqReturned(p) =>
                    /\ ret[p].ok
                    /\ ret[p].item = sent[p][Len(got[p])]
            /\ Finished(p) => got[p] = sent[p]

\* All SeqLen items of mixed types have come back to the goroutine.
C1_Witness ==
    \E p \in Procs :
        /\ Lone(p)
        /\ Finished(p)
        /\ Len(got[p]) = SeqLen
        /\ got[p][1] # got[p][2]
        /\ got[p][1][1] # got[p][2][1]

\* C2: in every reachable state the items removed so far, in the order of
\* their removal, followed by the slice, are the items appended so far, in
\* the order of their appends.
C2_QueueIsAdmittedMinusRemoved == removed \o queue = admitted

\* One item has been removed and a different one is still queued, while a
\* goroutine is inside a call.
C2_Witness ==
    /\ Len(removed) >= 1
    /\ Len(queue) >= 1
    /\ removed[1] # queue[1]
    /\ \E p \in Procs : pc[p] # "idle"

\* The workload is two producers and two consumers.
IsWorkers == plan = Workers(PerWorker)

WorkersDone == \A p \in 1 .. 4 : Finished(p)

NextAdmitted(p) == admitted[seen[p].adm + 1]

C4_ReturnsNextItem ==
    \A p \in Procs :
        (DeqReturned(p) /\ seen[p].empty /\ seen[p].undisturbed) =>
            /\ Len(admitted) > seen[p].adm
            /\ ret[p].ok
            /\ ret[p].item = NextAdmitted(p)

C5_NoReturnWithoutEnqueue ==
    /\ Len(removed) <= Len(admitted)
    /\ Len(Concat(got, NumProcs)) <= Len(admitted)
    /\ \A p \in Procs :
         (DeqReturned(p) /\ seen[p].empty) => Len(admitted) > seen[p].adm

\* A Dequeue issued on an empty queue is suspended, nothing has been
\* appended since, and no goroutine has an Enqueue left to make.
C5_Witness ==
    \E p \in Procs :
        /\ pc[p] = "d_waiting"
        /\ seen[p].empty
        /\ Len(admitted) = seen[p].adm
        /\ \A q \in Procs : left[q].enq = 0 /\ (q # p => pc[q] = "idle")

\* The workload is waiting consumers and the goroutine that feeds them.
IsWaiters == plan = Waiters(NumWaiters)

AllBlocked == \A p \in 1 .. NumWaiters : pc[p] = "d_waiting" /\ p \in waiting

AllServed ==
    /\ \A p \in 1 .. NumWaiters : DeqReturned(p) /\ ret[p].ok /\ Len(got[p]) = 1
    /\ BagOf(Concat(got, NumProcs)) = BagOf(sent[NumWaiters + 1])
    /\ Len(sent[NumWaiters + 1]) = NumWaiters
    /\ queue = << >>

\* C6: when NumWaiters Dequeue calls are blocked together on the empty queue
\* and NumWaiters Enqueue calls follow, every blocked call eventually
\* returns, each with one item, and the items returned are exactly the
\* items enqueued, none twice and none left in the queue.
C6_AllWaitersServed == (IsWaiters /\ AllBlocked) ~> AllServed

\* All waiters have returned, and there was a moment at which all of them
\* were suspended together.
C6_Witness ==
    /\ IsWaiters
    /\ AllServed
    /\ \A p \in 1 .. NumWaiters : seen[p].waited
    /\ \E p \in 1 .. NumWaiters : seen[p].company = NumWaiters

C8_FalseWhenEmpty ==
    \A p \in Procs :
        (DeqReturned(p) /\ seen[p].empty) => ret[p].ok = FALSE

\* C9: the value IsEmpty() computes with the mutex held is true exactly
\* when as many items have been removed as have been appended: true on a new
\* queue, false while an appended item has not been removed.
C9_IsEmptyIffNothingPending ==
    \A p \in Procs :
        pc[p] = "i_unlock" =>
            /\ ret[p].op = "IsEmpty"
            /\ ret[p].empty = (Len(admitted) - Len(removed) = 0)

\* IsEmpty() has answered true after an item was appended and removed.
C9_Witness ==
    \E p \in Procs :
        /\ pc[p] = "i_unlock"
        /\ ret[p].empty = TRUE
        /\ Len(removed) >= 1

\* The calls that have returned.
EnqueueCompleted ==
    Len(Concat(sent, NumProcs))
        - Cardinality({ p \in Procs : pc[p] \in {"e_lock", "e_append", "e_signal", "e_unlock"} })

DequeueCompleted == Len(Concat(got, NumProcs))

\* C10: when no other call is in flight, the value Size() computes is the
\* number of Enqueue calls that have returned minus the number of Dequeue
\* calls that have returned, and it is not negative.
C10_SizeIsEnqueuesMinusDequeues ==
    \A p \in Procs :
        (pc[p] = "s_unlock" /\ \A q \in Procs \ {p} : pc[q] = "idle") =>
            /\ ret[p].op = "Size"
            /\ ret[p].size = EnqueueCompleted - DequeueCompleted
            /\ ret[p].size >= 0

\* Size() has read the length after an Enqueue and a Dequeue call returned.
C10_Witness ==
    \E p \in Procs :
        /\ pc[p] = "s_unlock"
        /\ \A q \in Procs \ {p} : pc[q] = "idle"
        /\ EnqueueCompleted >= 1
        /\ DequeueCompleted >= 1

\* The goroutines this step takes out of Wait.
WokenByStep == { q \in Procs : pc[q] = "d_waiting" /\ pc'[q] = "d_woken" }

\* This step is the q.cond.Signal() of an Enqueue call.
IsSignalStep == \E p \in Procs : pc[p] = "e_signal" /\ pc'[p] = "e_unlock"

\* C11: the Signal of an Enqueue call takes exactly one goroutine out of Wait
\* when some are suspended there and none when none is, and no other step of
\* any call takes a goroutine out of Wait: an Enqueue call never wakes two.
C11_EnqueueWakesOne ==
    [][ /\ IsSignalStep =>
            /\ Cardinality(WokenByStep) = (IF waiting = {} THEN 0 ELSE 1)
            /\ waiting' = waiting \ WokenByStep
            /\ WokenByStep \subseteq waiting
        /\ ~IsSignalStep => (WokenByStep = {} /\ waiting \subseteq waiting')
      ]_vars

\* An Enqueue has signalled with two goroutines suspended: one has been
\* woken and the other is still suspended.
C11_Witness ==
    \E p, q, r \in Procs :
        /\ pc[p] = "e_unlock"
        /\ pc[q] = "d_woken"
        /\ pc[r] = "d_waiting"
        /\ waiting = {r}

\* The goroutine is inside an Enqueue, IsEmpty or Size call.
InNonBlockingCall(p) ==
    pc[p] \in {"e_lock", "e_append", "e_signal", "e_unlock",
               "i_lock", "i_read", "i_unlock", "s_lock", "s_read", "s_unlock"}

\* C12: Enqueue, IsEmpty and Size have no Wait: under fair scheduling a
\* goroutine inside one of them always comes out of it, whatever the state
\* the call was made in and however many Dequeue calls are suspended on the
\* empty queue.
C12_NonBlockingCallsComplete ==
    \A p \in Procs : InNonBlockingCall(p) ~> (pc[p] = "idle")

\* An IsEmpty or Size call has returned, and an Enqueue call has been made,
\* while a Dequeue call is suspended on the empty queue.
C12_Witness ==
    \E p, q, r \in Procs :
        /\ pc[r] = "d_waiting"
        /\ r \in waiting
        /\ pc[p] = "e_lock"
        /\ pc[q] = "idle" /\ ret[q].op \in {"IsEmpty", "Size"}

\* The goroutine is between a q.mu.Lock() that has returned and the
\* q.mu.Unlock() that follows it; a goroutine suspended in Wait is not.
Holds(p) ==
    pc[p] \in {"e_append", "e_signal", "e_unlock",
               "d_check", "d_wait", "d_take", "d_return",
               "i_read", "i_unlock", "s_read", "s_unlock"}

\* The goroutine's next step reads or writes q.queue.
Accesses(p) == pc[p] \in {"e_append", "d_check", "d_take", "i_read", "s_read"}

\* C13: at most one goroutine is between Lock and Unlock at a time, it is
\* the one the mutex is locked by, and every step that reads or writes the
\* slice (the append, the emptiness check, the head removal, the two length
\* reads) is taken by that goroutine.
C13_MutualExclusion ==
    /\ [](\A p, q \in Procs : (Holds(p) /\ Holds(q)) => p = q)
    /\ [](\A p \in Procs : Holds(p) <=> mu = p)
    /\ [](\A p \in Procs : Accesses(p) => mu = p)
    /\ [][queue' # queue => \E p \in Procs : mu = p /\ Accesses(p) /\ pc'[p] # pc[p]]_vars

\* A goroutine is about to remove the head while a woken Dequeue, which
\* wants the same item, is kept out by the mutex.
C13_Witness ==
    \E p, r \in Procs :
        /\ pc[p] = "d_take" /\ mu = p
        /\ pc[r] = "d_woken"
        /\ Len(queue) = 1

\* The goroutine is inside q.cond.Wait(): suspended, or woken and not yet
\* in possession of the mutex again.
InWait(p) == pc[p] \in {"d_waiting", "d_woken"}

\* The goroutine's Wait has returned and it is in the loop or past it.
PastWait(p) ==
    seen[p].waited /\ pc[p] \in {"d_check", "d_wait", "d_take", "d_return"}

\* C14: a Dequeue inside Wait does not hold the mutex, so it never is what
\* keeps an Enqueue at its Lock; and when its Wait returns it holds the
\* mutex again, before the loop condition is evaluated and before the slice
\* is touched.
C14_WaitReleasesAndReacquires ==
    /\ [](\A p \in Procs : InWait(p) => mu # p)
    /\ [](\A p, q \in Procs : (InWait(p) /\ pc[q] = "e_lock") => mu # p)
    /\ [](\A p \in Procs : PastWait(p) => mu = p)
    /\ [][\A p \in Procs :
            (pc[p] = "d_woken" /\ pc'[p] # pc[p]) =>
                (mu = Unlocked /\ mu' = p /\ pc'[p] = "d_check" /\ queue' = queue)
        ]_vars

\* A woken Dequeue holds the mutex again and is about to re-check, the item
\* having been appended by an Enqueue that locked the mutex while it and
\* another Dequeue, suspended still, were in Wait.
C14_Witness ==
    \E p, r \in Procs :
        /\ pc[p] = "d_check" /\ seen[p].waited /\ mu = p
        /\ pc[r] = "d_waiting"
        /\ Len(queue) = 1

\* C15: a Dequeue is about to suspend only when it holds the mutex and has
\* found the slice empty, and is about to remove the head only when it holds
\* the mutex and the slice is not empty, so that the removal never panics;
\* the loop condition sends it to Wait exactly when the slice is empty, on
\* entry and after every wake-up alike, and a woken Dequeue goes back to the
\* loop condition, not on to the head.
C15_WaitsExactlyWhenEmpty ==
    /\ [](\A p \in Procs : pc[p] = "d_wait" => (queue = << >> /\ mu = p))
    /\ [](\A p \in Procs : pc[p] = "d_take" => (queue # << >> /\ mu = p))
    /\ []Running
    /\ [][\A p \in Procs :
            /\ (pc[p] = "d_check" /\ pc'[p] # pc[p]) =>
                   pc'[p] = (IF queue = << >> THEN "d_wait" ELSE "d_take")
            /\ (pc[p] = "d_woken" /\ pc'[p] # pc[p]) => pc'[p] = "d_check"
            /\ (pc[p] # "d_wait" /\ pc'[p] = "d_waiting") => pc'[p] = pc[p]
        ]_vars

\* A Dequeue that was woken has found the slice empty again, another
\* Dequeue having taken the item, and is about to suspend once more.
C15_Witness ==
    \E p, q \in Procs :
        /\ pc[p] = "d_wait"
        /\ seen[p].waited
        /\ p # q /\ Len(got[q]) >= 1

\* The workload is one producer and one consumer.
IsPair == plan = Pair(PairLen)

\* The producer, the consumer and the goroutine that started them have
\* finished; the consumer has what the producer enqueued, in its order, and
\* the Size() made after both has returned 0.
PairDone ==
    /\ \A p \in 1 .. 3 : Finished(p)
    /\ Len(sent[1]) = PairLen
    /\ got[2] = sent[1]
    /\ ret[2] = DequeueRet(sent[1][PairLen], TRUE)
    /\ ret[3] = SizeRet(0)
    /\ queue = << >>

Signalled ==
    { p \in Procs : pc[p] = "d_woken" \/ (pc[p] = "d_check" /\ seen[p].waited) }

\* The Enqueue that has appended its item and not called Signal yet.
AboutToSignal == { p \in Procs : pc[p] = "e_signal" }

\* The woken Dequeue that has found the slice non-empty and not removed the
\* head yet.
AboutToTake == { p \in Procs : pc[p] = "d_take" /\ seen[p].waited }

\* C17 as stated: in every reachable state in which a Dequeue is on the wait
\* list, the slice holds at most as many items as there are Dequeue calls
\* signalled and yet to re-check.
C17_AsStated ==
    waiting # {} => Len(queue) <= Cardinality(Signalled)

\* The same in the states in which no goroutine holds the mutex.
C17_WhenUnlocked ==
    (mu = Unlocked /\ waiting # {}) =>
        Len(queue) <= Cardinality({ p \in Procs : pc[p] = "d_woken" })

\* C17: no wake-up is lost.  In every reachable state in which a Dequeue is
\* on the wait list, the slice holds at most as many items as there are
\* Dequeue calls signalled and yet to re-check, one more while the holder of
\* the mutex is an Enqueue between its append and its Signal, or a woken
\* Dequeue between its re-check and its removal of the head; while nobody
\* holds the mutex, at most as many as there are woken Dequeue calls.
C17_NoLostWakeup ==
    /\ waiting # {} =>
         Len(queue) <= Cardinality(Signalled) + Cardinality(AboutToSignal)
                                              + Cardinality(AboutToTake)
    /\ Cardinality(AboutToSignal) + Cardinality(AboutToTake) <= 1
    /\ C17_WhenUnlocked

\* One Dequeue is on the wait list, another has been woken for the one item
\* in the slice, and the mutex is unlocked.
C17_Witness ==
    \E p, r \in Procs :
        /\ waiting = {r}
        /\ pc[p] = "d_woken"
        /\ Len(queue) = 1
        /\ mu = Unlocked

\* No goroutine can take a further step.
NoStepLeft == ~ENABLED Next

\* The Enqueue and the Dequeue calls issued so far.
EnqueueIssued == Len(Concat(sent, NumProcs))

DequeueIssued ==
    Len(Concat(got, NumProcs)) + Cardinality({ p \in Procs : InDequeue(p) })

\* The Dequeue calls suspended in Wait.
Blocked == { p \in Procs : pc[p] = "d_waiting" }

Max(a, b) == IF a >= b THEN a ELSE b

\* C18: in every state in which no goroutine can take a further step, E
\* Enqueue calls and D Dequeue calls having been issued, max(0, D - E)
\* Dequeue calls are blocked and the slice holds max(0, E - D) items; so no
\* run ends with an item in the slice and a Dequeue blocked.
C18_QuiescentCounts ==
    NoStepLeft =>
        /\ Cardinality(Blocked) = Max(0, DequeueIssued - EnqueueIssued)
        /\ Len(queue) = Max(0, EnqueueIssued - DequeueIssued)
        /\ Blocked = { p \in Procs : pc[p] # "idle" }
        /\ ~(queue # << >> /\ Blocked # {})

\* No goroutine can take a step: two Dequeue calls and one Enqueue call
\* were issued, one Dequeue has returned the item and the other is blocked.
C18_Witness ==
    /\ NoStepLeft
    /\ EnqueueIssued = 1
    /\ DequeueIssued = 2
    /\ Cardinality(Blocked) = 1
    /\ \E p \in Procs : DeqReturned(p) /\ seen[p].waited

\* The goroutine is inside an IsEmpty or a Size call.
InObserver(p) ==
    pc[p] \in {"i_lock", "i_read", "i_unlock", "s_lock", "s_read", "s_unlock"}

\* C19: no step of an IsEmpty or a Size call changes the slice, the wait
\* list or the position of any other goroutine, so none wakes a suspended
\* Dequeue; the step that returns unlocks the mutex the call had locked; and
\* the two methods agree: on the slice as it is while the mutex is held,
\* IsEmpty's value is true exactly when Size's value is 0.
C19_ObserversChangeNothing ==
    /\ [][\A p \in Procs :
            (InObserver(p) /\ pc'[p] # pc[p]) =>
                /\ queue' = queue
                /\ waiting' = waiting
                /\ \A q \in Procs \ {p} : pc'[q] = pc[q]
                /\ pc'[p] = "idle" => (mu = p /\ mu' = Unlocked)
        ]_vars
    /\ [](IsEmptyValue(queue) <=> (SizeValue(queue) = 0))
    /\ [](\A p \in Procs :
            /\ pc[p] = "i_unlock" => (ret[p].empty <=> (SizeValue(queue) = 0))
            /\ pc[p] = "s_unlock" => ((ret[p].size = 0) <=> IsEmptyValue(queue)))

\* A Size call has read 0 and is about to return while a Dequeue call is
\* suspended on the empty queue, and an IsEmpty call waits for the mutex.
C19_Witness ==
    \E p, q, r \in Procs :
        /\ pc[p] = "s_unlock" /\ ret[p].size = 0
        /\ pc[q] = "i_lock"
        /\ r \in waiting

====
